---------------------------- MODULE Spec2Model ----------------------------
(***************************************************************************)
(* Model of the MQTT-to-PostgreSQL bridge (src/main.py) and of the MQTT    *)
(* client wrapper it is built on (src/mqtt_client/).                       *)
(*                                                                         *)
(* Three execution contexts touch the ingestion pipeline:                  *)
(*   "net"    the transport's network thread, which runs _on_message ->    *)
(*            OptimizedMessageHandler.handle_message;                      *)
(*   "worker" the thread started in OptimizedMessageHandler.__init__,      *)
(*            which runs _process_messages;                                *)
(*   "main"   the main thread, which runs handle_shutdown -> shutdown(),   *)
(*            MQTTClientWrapper.disconnect(), db_client.close(), exit.     *)
(* Every step below is one atomic access to the shared state (the Queue's  *)
(* mutex-protected methods, one attribute read or write).  A store call    *)
(* (db_client.create_message) is two steps, its start and its return, so   *)
(* that calls of two threads can overlap.                                  *)
(*                                                                         *)
(* Messages are identified by their arrival number 1, 2, 3, ...            *)
(*                                                                         *)
(* The session (connected, subscribed_topics) is touched by two contexts:  *)
(* the caller of MQTTClientWrapper.connect / subscribe / disconnect, and   *)
(* the network thread, which runs DefaultConnectionHandler.on_connect and  *)
(* on_disconnect.  Spec is the pipeline of a connected bridge up to its    *)
(* exit; SessionSpec is the session of a wrapper from its construction.    *)
(***************************************************************************)
EXTENDS Integers, Sequences, FiniteSets

\* ---------------------------------------------------------------- bounds
MaxMsgs == 3      \* messages the broker delivers in one behaviour
MaxCap == 2       \* largest max_queue_size tried
MaxFilters == 2   \* distinct topic filters the caller subscribes to
MaxTicks == 1     \* times the statistics interval runs out in one behaviour

\* ------------------------------------------------------ program constants
max_retries_Four == 3 + 1
max_retries == 3  \* _store_message: max_retries = 3

Ids == 1..MaxMsgs
NoMsg == << >>   \* a context that holds no message
Threads == {"worker", "main"}
Filters == 1..MaxFilters

VARIABLES
    \* ---- OptimizedMessageHandler
    cap,              \* message_queue.maxsize
    queue,            \* message_queue (FIFO)
    running,          \* self.running
    processed_count,  \* self.processed_count
    dropped_count,    \* self.dropped_count
    \* ---- control state of the three contexts
    arrived,          \* number of messages the transport has delivered so far
    net_pc,           \* network thread: position inside handle_message
    net_msg,          \* network thread: << the message being handled >>, or NoMsg
    pc,               \* [Threads -> position]
    msg,              \* [Threads -> << the message the thread holds >>, or NoMsg]
    retry_count,      \* [Threads -> _store_message's retry_count]
    loop_started,     \* the transport's network loop thread is running
    \* ---- history of what the code did (written, never read, by the code)
    accepted,         \* messages put into the queue, in order
    deqLog,           \* messages taken from the queue, in order
    attempts,         \* [Ids -> number of create_message calls started]
    stored,           \* [Ids -> number of create_message calls that succeeded]
    doneAtBegin,      \* [Ids -> messages already stored when the latest call for it started]
    errLog,           \* [Ids -> the logging.error entries written for it, in order]
    failed,           \* messages for which _store_message raised
    putErrors,        \* handle_message calls that ended in the except branch
    resident,         \* messages in the queue when shutdown() was called
    lateArrival,      \* handle_message ran, or was running, after shutdown() was called
    anyStoreFail,     \* some create_message call has failed
    drainStored,      \* messages whose successful create_message call was the drain's
    \* ---- statistics
    due,              \* 60 seconds or more have passed since self.last_log_time
    ticks,            \* times the interval has run out so far
    statsLog,         \* the contexts that called _log_statistics, in order
    \* ---- DefaultConnectionHandler (the session state)
    connected,        \* self.connected
    subscribed_topics,\* self.subscribed_topics
    \* ---- the transport (paho client) as the wrapper sees it
    link,             \* "closed", "sent" (CONNECT sent, no CONNACK yet), "open"
    disc_pending,     \* a requested disconnect has not been reported yet
    \* ---- control state of the caller and of the transport's callbacks
    c_pc,             \* caller: position inside connect() / publish() / subscribe()
    c_op,             \* caller: the wrapper operation in progress, or the last one
    c_arg,            \* caller: the filter subscribe() was called with
    c_result,         \* caller: what the last operation returned
    n_pc,             \* network thread: position inside on_connect
    oc_size,          \* on_connect: the set's size when its iterator was made
    oc_todo,          \* on_connect: filters the iterator has not yielded yet
    \* ---- history of the latest on_connect(0) callback
    oc_start,         \* subscribed_topics when the iteration started
    oc_issued,        \* [Filters -> client.subscribe calls it made]
    oc_result,        \* "none", "running", "ok", "error"
    \* ---- history of the latest call of each wrapper operation and callback
    cc,               \* connect(): callbacks and subscribe calls during it, its outcome
    pp,               \* publish(): connected as read, connect() and publish calls, outcome
    ss,               \* subscribe(): the set before it, the transport's answer
    od_last,          \* on_disconnect: its rc, connected before it; bit flips per call
    t_last            \* the last transport call (connect / subscribe / publish / disconnect); bit flips per call

ingestVars == << cap, queue, running, processed_count, dropped_count, arrived,
           net_pc, net_msg, pc, msg, retry_count,
           accepted, deqLog, attempts, stored, doneAtBegin, errLog, failed,
           putErrors, resident, lateArrival, anyStoreFail, drainStored >>

statVars == << due, ticks, statsLog >>

sessHist == << cc, pp, ss, od_last, t_last >>

sessVars == << connected, subscribed_topics, link, disc_pending, c_pc, c_op, c_arg,
               c_result, n_pc, oc_size, oc_todo, oc_start, oc_issued, oc_result,
               sessHist >>

vars == << ingestVars, statVars, loop_started, sessVars >>

histStore == << attempts, stored, doneAtBegin, errLog, failed, anyStoreFail,
               drainStored >>

Range(s) == { s[i] : i \in 1..Len(s) }

\* ------------------------------------------------------- queue.Queue
\* Queue(maxsize=max_queue_size): the bound the queue enforces (0: none).
QueueMaxsize_OffByOne == cap + 1
QueueMaxsize == cap

\* Queue.full(): 0 < maxsize <= qsize()
QFull_NoZeroTest == QueueMaxsize <= Len(queue)
QFull == 0 < QueueMaxsize /\ QueueMaxsize <= Len(queue)

\* Queue.empty()
QEmpty == Len(queue) = 0

\* Queue.qsize()
QSize == Len(queue)

\* Queue.get() / get_nowait() on a non-empty queue: the item returned and
\* the queue left behind.  queue.Queue is first-in first-out.
QGet_Peek == [item |-> Head(queue), rest |-> queue]
QGet_Lifo == [item |-> queue[Len(queue)], rest |-> SubSeq(queue, 1, Len(queue) - 1)]
QGet == [item |-> Head(queue), rest |-> Tail(queue)]

\* ------------------------------------------------------------------ Init
\* OptimizedMessageHandler.__init__: the worker thread is at the top of its
\* loop, the queue is empty, the counters are 0; the main thread has not
\* received a signal.
HandlerStart ==
    /\ queue = << >>
    /\ running = TRUE
    /\ processed_count = 0
    /\ dropped_count = 0
    /\ arrived = 0
    /\ net_pc = "idle"
    /\ net_msg = NoMsg
    /\ pc = [t \in Threads |-> IF t = "worker" THEN "loop" ELSE "pause"]
    /\ msg = [t \in Threads |-> NoMsg]
    /\ retry_count = [t \in Threads |-> 0]
    /\ accepted = << >>
    /\ deqLog = << >>
    /\ attempts = [i \in Ids |-> 0]
    /\ stored = [i \in Ids |-> 0]
    /\ doneAtBegin = [i \in Ids |-> {}]
    /\ errLog = [i \in Ids |-> << >>]
    /\ failed = {}
    /\ putErrors = 0
    /\ resident = {}
    /\ lateArrival = FALSE
    /\ anyStoreFail = FALSE
    /\ drainStored = {}
    /\ due = FALSE
    /\ ticks = 0
    /\ statsLog = << >>

\* The handler constructed with a positive max_queue_size.
InitHandler ==
    /\ cap \in 1..MaxCap
    /\ HandlerStart

\* No wrapper operation has been called, no callback delivered.
NoConnectCall == [cb |-> {}, subs |-> FALSE, topics0 |-> {}, timedout |-> FALSE,
                  done |-> FALSE, result |-> "none", conn |-> FALSE, topics1 |-> {}]
NoPublishCall == [conn0 |-> FALSE, connects |-> 0, cres |-> "none", pubs |-> 0,
                  code |-> -1, raised |-> FALSE, done |-> FALSE, result |-> "none"]
NoSubscribeCall == [f |-> 1, qos |-> -1, calls |-> 0, code |-> -1, raised |-> FALSE, topics0 |-> {},
                    done |-> FALSE, result |-> "none", topics1 |-> {}]
InitSessHist ==
    /\ cc = NoConnectCall
    /\ pp = NoPublishCall
    /\ ss = NoSubscribeCall
    /\ od_last = [rc |-> -1, before |-> FALSE, bit |-> FALSE]
    /\ t_last = [op |-> "none", bit |-> FALSE, again |-> FALSE,
                 by |-> "caller", qos |-> -1]

\* DefaultConnectionHandler.__init__ and a wrapper that has not connected.
InitSession ==
    /\ InitSessHist
    /\ c_op = "none"
    /\ connected = FALSE
    /\ subscribed_topics = {}
    /\ link = "closed"
    /\ disc_pending = FALSE
    /\ c_pc = "idle"
    /\ c_arg = 0
    /\ c_result = "none"
    /\ n_pc = "idle"
    /\ oc_size = 0
    /\ oc_todo = {}
    /\ oc_start = {}
    /\ oc_issued = [f \in Filters |-> 0]
    /\ oc_result = "none"

\* The bridge once main() has connected, has subscribed to its one filter
\* and is waiting in signal.pause(): the network loop is running.
BridgeStart ==
    /\ connected = TRUE
    /\ subscribed_topics = {1}
    /\ link = "open"
    /\ disc_pending = FALSE
    /\ c_pc = "idle"
    /\ c_op = "subscribe"
    /\ InitSessHist
    /\ c_arg = 1
    /\ c_result = "ok"
    /\ n_pc = "idle"
    /\ oc_size = 0
    /\ oc_todo = {}
    /\ oc_start = {}
    /\ oc_issued = [f \in Filters |-> 0]
    /\ oc_result = "ok"
    /\ loop_started = TRUE

Init ==
    /\ InitHandler
    /\ BridgeStart

\* max_queue_size is an int the caller passes to __init__, which hands it
\* to Queue(maxsize=...) unchecked: negative, zero or positive.
ConfiguredSizes == {-1, 0, 1}

InitAnySize ==
    /\ cap \in ConfiguredSizes
    /\ HandlerStart
    /\ BridgeStart

\* The process has not exited: its threads can still run.
Alive == pc["main"] # "exited"

\* ------------------------------------------------ network thread: messages
frameNet == << cap, running, processed_count, pc, msg, retry_count,
               loop_started, deqLog, histStore, resident, statVars >>

\* MQTTClientWrapper._on_message builds the Message and calls
\* handle_message, which first evaluates "not self.message_queue.full()".
OnMessage_LooseTest ==
    /\ Alive /\ loop_started
    /\ net_pc = "idle"
    /\ arrived < MaxMsgs
    /\ arrived' = arrived + 1
    /\ net_msg' = << arrived + 1 >>
    /\ net_pc' = IF Len(queue) <= QueueMaxsize THEN "put" ELSE "drop"
    /\ lateArrival' = (lateArrival \/ pc["main"] # "pause")
    /\ UNCHANGED << queue, dropped_count, accepted, putErrors >>
    /\ UNCHANGED << frameNet, sessVars >>
OnMessage ==
    /\ Alive /\ loop_started
    /\ net_pc = "idle"
    /\ arrived < MaxMsgs
    /\ arrived' = arrived + 1
    /\ net_msg' = << arrived + 1 >>
    /\ net_pc' = IF ~QFull THEN "put" ELSE "drop"
    /\ lateArrival' = (lateArrival \/ pc["main"] # "pause")
    /\ UNCHANGED << queue, dropped_count, accepted, putErrors >>
    /\ UNCHANGED << frameNet, sessVars >>

\* self.message_queue.put_nowait(message); queue.Full is caught by the
\* handler's "except Exception" and logged.
HM_Put_WaitsForWorker ==
    /\ Alive
    /\ net_pc = "put"
    /\ pc["worker"] \notin {"store", "inflight"}
    /\ IF ~QFull
          THEN /\ queue' = Append(queue, net_msg[1])
               /\ accepted' = Append(accepted, net_msg[1])
               /\ UNCHANGED putErrors
          ELSE /\ putErrors' = putErrors + 1
               /\ UNCHANGED << queue, accepted >>
    /\ net_pc' = "idle"
    /\ net_msg' = NoMsg
    /\ UNCHANGED << dropped_count, arrived, lateArrival >>
    /\ UNCHANGED << frameNet, sessVars >>
HM_Put ==
    /\ Alive
    /\ net_pc = "put"
    /\ IF ~QFull
          THEN /\ queue' = Append(queue, net_msg[1])
               /\ accepted' = Append(accepted, net_msg[1])
               /\ UNCHANGED putErrors
          ELSE /\ putErrors' = putErrors + 1
               /\ UNCHANGED << queue, accepted >>
    /\ net_pc' = "idle"
    /\ net_msg' = NoMsg
    /\ UNCHANGED << dropped_count, arrived, lateArrival >>
    /\ UNCHANGED << frameNet, sessVars >>

\* else: self.dropped_count += 1 (and a warning every 100th drop)
HM_Drop_Evict ==
    /\ Alive
    /\ net_pc = "drop"
    /\ dropped_count' = dropped_count + 1
    /\ queue' = IF QEmpty THEN queue ELSE Append(Tail(queue), net_msg[1])
    /\ net_pc' = "idle"
    /\ net_msg' = NoMsg
    /\ UNCHANGED << arrived, accepted, putErrors, lateArrival >>
    /\ UNCHANGED << frameNet, sessVars >>
HM_Drop_Silent ==
    /\ Alive
    /\ net_pc = "drop"
    /\ net_pc' = "idle"
    /\ net_msg' = NoMsg
    /\ UNCHANGED << queue, dropped_count, arrived, accepted, putErrors, lateArrival >>
    /\ UNCHANGED << frameNet, sessVars >>
HM_Drop ==
    /\ Alive
    /\ net_pc = "drop"
    /\ dropped_count' = dropped_count + 1
    /\ net_pc' = "idle"
    /\ net_msg' = NoMsg
    /\ UNCHANGED << queue, arrived, accepted, putErrors, lateArrival >>
    /\ UNCHANGED << frameNet, sessVars >>

\* ------------------------------------------------------- _store_message
frameStore == << cap, queue, running, processed_count, dropped_count, arrived,
                 net_pc, net_msg, loop_started, accepted, deqLog, putErrors,
                 resident, lateArrival, statVars >>

\* Where the caller of _store_message goes on when it returns normally:
\* the worker to "self.processed_count += 1", the drain to its loop test.
AfterReturn(t) == IF t = "worker" THEN "count" ELSE "empty"

\* Where the caller goes on when _store_message raises: the worker's
\* "except Exception" ends the iteration, the drain's ends its iteration.
AfterRaise_DrainStops(t) == IF t = "worker" THEN "loop" ELSE "returned"
AfterRaise_Dies(t) == IF t = "worker" THEN "done" ELSE "empty"
AfterRaise(t) == IF t = "worker" THEN "loop" ELSE "empty"

\* logging.error(f"Failed to store message after {max_retries} attempts")
StoreErrorLog(log, m) == [log EXCEPT ![m] = Append(@, "store_failed")]

\* The caller's handler: logging.error("Error processing message: ...") in
\* the worker, logging.error("Error processing final message: ...") in the
\* drain.  Neither touches a counter.
HandlerErrorLog_Silent(log, m) == log
HandlerErrorLog(log, m) == [log EXCEPT ![m] = Append(@, "handler")]

\* while retry_count < max_retries: try: self.db_client.create_message(...)
StoreCall(t) ==
    /\ Alive
    /\ pc[t] = "store"
    /\ IF retry_count[t] < max_retries
          THEN /\ pc' = [pc EXCEPT ![t] = "inflight"]
               /\ attempts' = [attempts EXCEPT ![msg[t][1]] = @ + 1]
               /\ doneAtBegin' = [doneAtBegin EXCEPT
                                    ![msg[t][1]] = { i \in Ids : stored[i] > 0 }]
          ELSE /\ pc' = [pc EXCEPT ![t] = AfterReturn(t)]
               /\ UNCHANGED << attempts, doneAtBegin >>
    /\ UNCHANGED << msg, retry_count, stored, errLog, failed, anyStoreFail,
                    drainStored >>
    /\ UNCHANGED << frameStore, sessVars >>

\* create_message returned the new row's id: return
StoreOk(t) ==
    /\ Alive
    /\ pc[t] = "inflight"
    /\ stored' = [stored EXCEPT ![msg[t][1]] = @ + 1]
    /\ drainStored' = IF t = "main" THEN drainStored \cup {msg[t][1]} ELSE drainStored
    /\ pc' = [pc EXCEPT ![t] = AfterReturn(t)]
    /\ msg' = [msg EXCEPT ![t] = IF t = "worker" THEN @ ELSE NoMsg]
    /\ UNCHANGED << retry_count, attempts, doneAtBegin, errLog, failed, anyStoreFail >>
    /\ UNCHANGED << frameStore, sessVars >>

\* create_message raised: retry_count += 1; on the last attempt log an error
\* and re-raise to the caller, whose handler logs the exception; otherwise
\* log a warning and go round the loop.
StoreFail(t) ==
    /\ Alive
    /\ pc[t] = "inflight"
    /\ anyStoreFail' = TRUE
    /\ retry_count' = [retry_count EXCEPT ![t] = @ + 1]
    /\ IF retry_count'[t] = max_retries
          THEN /\ errLog' = HandlerErrorLog(StoreErrorLog(errLog, msg[t][1]), msg[t][1])
               /\ failed' = failed \cup {msg[t][1]}
               /\ pc' = [pc EXCEPT ![t] = AfterRaise(t)]
               /\ msg' = [msg EXCEPT ![t] = NoMsg]
          ELSE /\ pc' = [pc EXCEPT ![t] = "store"]
               /\ UNCHANGED << errLog, failed, msg >>
    /\ UNCHANGED << attempts, stored, doneAtBegin, drainStored >>
    /\ UNCHANGED << frameStore, sessVars >>

\* ------------------------------------------------- _process_messages
frameWorker == << cap, dropped_count, arrived, net_pc, net_msg, loop_started,
                  running, accepted, histStore, putErrors, resident, lateArrival >>

\* while self.running:
W_Loop_Forever ==
    /\ Alive
    /\ pc["worker"] = "loop"
    /\ pc' = [pc EXCEPT !["worker"] = "get"]
    /\ UNCHANGED << queue, processed_count, msg, retry_count, deqLog, statVars >>
    /\ UNCHANGED << frameWorker, sessVars >>
W_Loop ==
    /\ Alive
    /\ pc["worker"] = "loop"
    /\ pc' = [pc EXCEPT !["worker"] = IF running THEN "get" ELSE "done"]
    /\ UNCHANGED << queue, processed_count, msg, retry_count, deqLog, statVars >>
    /\ UNCHANGED << frameWorker, sessVars >>

\* message = self.message_queue.get(timeout=1.0); on queue.Empty: continue.
\* _store_message then starts with retry_count = 0.
W_Get ==
    /\ Alive
    /\ pc["worker"] = "get"
    /\ IF ~QEmpty
          THEN /\ msg' = [msg EXCEPT !["worker"] = << QGet.item >>]
               /\ queue' = QGet.rest
               /\ deqLog' = Append(deqLog, QGet.item)
               /\ retry_count' = [retry_count EXCEPT !["worker"] = 0]
               /\ pc' = [pc EXCEPT !["worker"] = "store"]
          ELSE /\ pc' = [pc EXCEPT !["worker"] = "loop"]
               /\ UNCHANGED << msg, queue, deqLog, retry_count >>
    /\ UNCHANGED << processed_count, statVars >>
    /\ UNCHANGED << frameWorker, sessVars >>

W_Count_Double ==
    /\ Alive
    /\ pc["worker"] = "count"
    /\ processed_count' = processed_count + 2
    /\ IF due
          THEN /\ statsLog' = Append(statsLog, "worker")
               /\ due' = FALSE
          ELSE UNCHANGED << statsLog, due >>
    /\ UNCHANGED ticks
    /\ msg' = [msg EXCEPT !["worker"] = NoMsg]
    /\ pc' = [pc EXCEPT !["worker"] = "loop"]
    /\ UNCHANGED << queue, retry_count, deqLog >>
    /\ UNCHANGED << frameWorker, sessVars >>

\* self.processed_count += 1, then the statistics check: if 60 seconds or
\* more have passed since last_log_time, _log_statistics() is called and
\* last_log_time is set to the current time.
W_Count ==
    /\ Alive
    /\ pc["worker"] = "count"
    /\ processed_count' = processed_count + 1
    /\ IF due
          THEN /\ statsLog' = Append(statsLog, "worker")
               /\ due' = FALSE
          ELSE UNCHANGED << statsLog, due >>
    /\ UNCHANGED ticks
    /\ msg' = [msg EXCEPT !["worker"] = NoMsg]
    /\ pc' = [pc EXCEPT !["worker"] = "loop"]
    /\ UNCHANGED << queue, retry_count, deqLog >>
    /\ UNCHANGED << frameWorker, sessVars >>

\* ------------------------------------- handle_shutdown and shutdown()
frameMain == << cap, processed_count, dropped_count, arrived, net_pc, net_msg,
                accepted, histStore, putErrors, statVars >>

\* A create_message call is the only part of the worker's iteration that
\* can last longer than the join's five seconds.
WorkerInStore == pc["worker"] = "inflight"

\* SIGINT/SIGTERM: handle_shutdown calls message_handler.shutdown(), whose
\* first statement is self.running = False.
HS_Signal_DisconnectFirst ==
    /\ pc["main"] = "pause"
    /\ net_pc = "idle"
    /\ running' = FALSE
    /\ loop_started' = FALSE
    /\ lateArrival' = (net_pc # "idle")
    /\ resident' = Range(queue)
    /\ pc' = [pc EXCEPT !["main"] = "join"]
    /\ UNCHANGED << queue, msg, retry_count, deqLog >>
    /\ UNCHANGED << frameMain, sessVars >>
HS_Signal ==
    /\ pc["main"] = "pause"
    /\ running' = FALSE
    /\ lateArrival' = (net_pc # "idle")
    /\ resident' = Range(queue)
    /\ pc' = [pc EXCEPT !["main"] = "join"]
    /\ UNCHANGED << queue, msg, retry_count, deqLog, loop_started >>
    /\ UNCHANGED << frameMain, sessVars >>

\* self.worker.join(timeout=5.0): returns when the worker has ended, or
\* after five seconds with the worker still inside a store call.
SD_Join ==
    /\ pc["main"] = "join"
    /\ pc["worker"] = "done" \/ WorkerInStore
    /\ pc' = [pc EXCEPT !["main"] = "qsize"]
    /\ UNCHANGED << queue, running, msg, retry_count, deqLog, loop_started, resident >>
    /\ UNCHANGED lateArrival
    /\ UNCHANGED << frameMain, sessVars >>

\* remaining = self.message_queue.qsize(); if remaining > 0:
SD_QSize ==
    /\ pc["main"] = "qsize"
    /\ pc' = [pc EXCEPT !["main"] = IF QSize > 0 THEN "empty" ELSE "returned"]
    /\ UNCHANGED << queue, running, msg, retry_count, deqLog, loop_started, resident >>
    /\ UNCHANGED lateArrival
    /\ UNCHANGED << frameMain, sessVars >>

\* while not self.message_queue.empty():
SD_Empty ==
    /\ pc["main"] = "empty"
    /\ pc' = [pc EXCEPT !["main"] = IF ~QEmpty THEN "get" ELSE "returned"]
    /\ UNCHANGED << queue, running, msg, retry_count, deqLog, loop_started, resident >>
    /\ UNCHANGED lateArrival
    /\ UNCHANGED << frameMain, sessVars >>

\* message = self.message_queue.get_nowait(); queue.Empty is caught by the
\* loop's "except Exception" and logged.
SD_Get ==
    /\ pc["main"] = "get"
    /\ IF ~QEmpty
          THEN /\ msg' = [msg EXCEPT !["main"] = << QGet.item >>]
               /\ queue' = QGet.rest
               /\ deqLog' = Append(deqLog, QGet.item)
               /\ retry_count' = [retry_count EXCEPT !["main"] = 0]
               /\ pc' = [pc EXCEPT !["main"] = "store"]
          ELSE /\ pc' = [pc EXCEPT !["main"] = "empty"]
               /\ UNCHANGED << msg, queue, deqLog, retry_count >>
    /\ UNCHANGED << running, loop_started, resident >>
    /\ UNCHANGED lateArrival
    /\ UNCHANGED << frameMain, sessVars >>

\* mqtt_client.disconnect(): self.client.loop_stop() waits for the network
\* thread to leave its callback and ends it; self.client.disconnect().
HS_Disconnect ==
    /\ pc["main"] = "returned"
    /\ net_pc = "idle"
    /\ loop_started' = FALSE
    /\ pc' = [pc EXCEPT !["main"] = "close"]
    /\ UNCHANGED << queue, running, msg, retry_count, deqLog, resident >>
    /\ UNCHANGED lateArrival
    /\ UNCHANGED << frameMain, sessVars >>

\* db_client.close(); sys.exit(0); main()'s finally block disconnects and
\* closes again; the daemon worker thread ends with the process.
HS_Exit ==
    /\ pc["main"] = "close"
    /\ pc' = [pc EXCEPT !["main"] = "exited"]
    /\ UNCHANGED << queue, running, msg, retry_count, deqLog, loop_started, resident >>
    /\ UNCHANGED lateArrival
    /\ UNCHANGED << frameMain, sessVars >>

\* ------------------------------------------------------------------ Spec
Next ==
    \/ OnMessage
    \/ HM_Put
    \/ HM_Drop
    \/ W_Loop
    \/ W_Get
    \/ W_Count
    \/ \E t \in Threads : StoreCall(t)
    \/ \E t \in Threads : StoreOk(t)
    \/ \E t \in Threads : StoreFail(t)
    \/ HS_Signal
    \/ SD_Join
    \/ SD_QSize
    \/ SD_Empty
    \/ SD_Get
    \/ HS_Disconnect
    \/ HS_Exit

Spec == Init /\ [][Next]_vars

\* The bridge with max_queue_size of any sign.
AnySizeSpec == InitAnySize /\ [][Next]_vars

\* ------------------------------------------------------------ statistics
\* Time passes: the clock is now 60 seconds or more past last_log_time.
Tick ==
    /\ Alive
    /\ ~due
    /\ ticks < MaxTicks
    /\ due' = TRUE
    /\ ticks' = ticks + 1
    /\ UNCHANGED << statsLog, ingestVars, loop_started, sessVars >>

\* The steps of the worker thread.
WorkerStep ==
    \/ W_Loop
    \/ W_Get
    \/ W_Count
    \/ StoreCall("worker")
    \/ StoreOk("worker")
    \/ StoreFail("worker")

StatsNext ==
    \/ Next
    \/ Tick

\* The bridge with the clock running.  The worker thread is scheduled as
\* long as it has a step to take, and every create_message call returns or
\* raises.
StatsSpec == Init /\ [][StatsNext]_vars /\ WF_vars(WorkerStep)

\* ------------------------------------------- a broker that never stops
\* The broker has no last message.  Once the drain has stored a record the
\* program holds nothing of it any more, so its number is given up and the
\* later records close the gap: the next delivery is again arrived + 1.
Shift(k, i) == IF i > k THEN i - 1 ELSE i
ShiftSet(k, S) == { Shift(k, i) : i \in S \ {k} }
ShiftSeq(k, s) ==
    LET t == SelectSeq(s, LAMBDA x : x # k)
    IN  [j \in 1..Len(t) |-> Shift(k, t[j])]
ShiftFun(k, f, z) ==
    [i \in Ids |-> IF i < k THEN f[i] ELSE IF i < MaxMsgs THEN f[i + 1] ELSE z]

Forget(k) ==
    /\ Alive
    /\ k \in drainStored
    /\ k \notin Range(queue)
    /\ arrived' = arrived - 1
    /\ queue' = ShiftSeq(k, queue)
    /\ net_msg' = ShiftSeq(k, net_msg)
    /\ msg' = [t \in Threads |-> ShiftSeq(k, msg[t])]
    /\ accepted' = ShiftSeq(k, accepted)
    /\ deqLog' = ShiftSeq(k, deqLog)
    /\ attempts' = ShiftFun(k, attempts, 0)
    /\ stored' = ShiftFun(k, stored, 0)
    /\ doneAtBegin' = ShiftFun(k, [i \in Ids |-> ShiftSet(k, doneAtBegin[i])], {})
    /\ errLog' = ShiftFun(k, errLog, << >>)
    /\ failed' = ShiftSet(k, failed)
    /\ resident' = ShiftSet(k, resident)
    /\ drainStored' = ShiftSet(k, drainStored)
    /\ UNCHANGED << cap, running, processed_count, dropped_count, net_pc, pc,
                    retry_count, putErrors, lateArrival, anyStoreFail >>
    /\ UNCHANGED << statVars, loop_started, sessVars >>

\* The steps of shutdown() on the main thread.
DrainStep ==
    \/ SD_Join
    \/ SD_QSize
    \/ SD_Empty
    \/ SD_Get
    \/ StoreCall("main")
    \/ StoreOk("main")
    \/ StoreFail("main")

FloodNext ==
    \/ Next
    \/ \E k \in Ids : Forget(k)

\* The bridge under a broker that never stops.  Both threads are scheduled
\* as long as they have a step to take and every create_message call
\* returns or raises; nothing is assumed of the network thread.
FloodSpec == Init /\ [][FloodNext]_vars /\ WF_vars(DrainStep) /\ WF_vars(WorkerStep)

\* ====================================================================
\* The session: MQTTClientWrapper (caller context) and
\* DefaultConnectionHandler (callbacks on the transport's network thread)
\* ====================================================================
frameSess == << ingestVars, statVars >>

\* Reason / acknowledgment codes tried: success and one failure
\* (4: bad user name or password; MQTT_ERR_NO_CONN for a call).
Codes == {0, 4}

\* ------------------------------------------------ history bookkeeping
\* A connect() call is between its client.connect() and its return.
InConnect == c_pc \in {"poll", "check"}

\* A callback delivered while connect() is in progress is noted in cc.
CcSeen(tag) == IF InConnect THEN [cc EXCEPT !.cb = @ \cup {tag}] ELSE cc

\* A transport subscribe issued while connect() is in progress is noted.
CcSubscribed == IF InConnect THEN [cc EXCEPT !.subs = TRUE] ELSE cc

\* A call of the transport by the program; "again" marks a disconnect that
\* follows a disconnect with no other call in between.
Touch(op) == [op |-> op, bit |-> ~t_last.bit,
              again |-> (op = "disconnect" /\ t_last.op = "disconnect"),
              by |-> "caller", qos |-> -1]

\* A client.subscribe call: who made it and the qos argument it carried.
TouchSubscribe(by, qos) == [op |-> "subscribe", bit |-> ~t_last.bit,
                            again |-> FALSE, by |-> by, qos |-> qos]

\* ---------------------------------------- DefaultConnectionHandler
\* on_connect, up to the for loop: rc 0 sets connected, any other code
\* clears it.
OnConnectFlag_Any(rc) == TRUE
OnConnectFlag(rc) == rc = 0

\* on_disconnect: self.connected = False, whatever rc is.
OnDisconnectFlag_OnlyUnexpected(rc) == IF rc = 0 THEN connected ELSE FALSE
OnDisconnectFlag(rc) == FALSE

\* The transport reports the CONNACK: on_connect(client, userdata, flags, rc).
OC_Start(rc) ==
    /\ loop_started
    /\ n_pc = "idle"
    /\ link = "sent"
    /\ connected' = OnConnectFlag(rc)
    /\ link' = IF rc = 0 THEN "open" ELSE "closed"
    /\ n_pc' = IF rc = 0 THEN "oc_for" ELSE "idle"
    /\ oc_result' = IF rc = 0 THEN "running" ELSE oc_result
    /\ cc' = CcSeen(IF rc = 0 THEN "oc_ok" ELSE "oc_fail")
    /\ UNCHANGED << subscribed_topics, disc_pending, c_pc, c_op, c_arg, c_result,
                    oc_size, oc_todo, oc_start, oc_issued, loop_started,
                    pp, ss, od_last, t_last >>
    /\ UNCHANGED frameSess

\* for topic in self.subscribed_topics: the set iterator is created and
\* remembers the set's size.
OC_Iter ==
    /\ loop_started
    /\ n_pc = "oc_for"
    /\ oc_size' = Cardinality(subscribed_topics)
    /\ oc_todo' = subscribed_topics
    /\ oc_start' = subscribed_topics
    /\ oc_issued' = [f \in Filters |-> 0]
    /\ n_pc' = "oc_next"
    /\ UNCHANGED << connected, subscribed_topics, link, disc_pending, c_pc, c_op,
                    c_arg, c_result, oc_result, loop_started, sessHist >>
    /\ UNCHANGED frameSess

\* client.subscribe(topic, qos=0, ...): the transport's default qos.
DefaultQos == 0

\* The qos levels subscribe() is called with: its default, 1, and 2.
QosLevels == {1, 2}

\* client.subscribe(topic) in on_connect: no qos argument, so the default.
ResubscribeQos_Retained(f) == IF ss.done /\ ss.f = f THEN ss.qos ELSE DefaultQos
ResubscribeQos(f) == DefaultQos

\* One round of the for loop: the iterator raises RuntimeError ("Set changed
\* size during iteration") if the set's size differs from the one it
\* remembers, ends the loop if nothing is left, and otherwise yields a filter,
\* for which the body calls client.subscribe(topic).
OC_Next ==
    /\ loop_started
    /\ n_pc = "oc_next"
    /\ IF Cardinality(subscribed_topics) # oc_size
          THEN /\ n_pc' = "idle"
               /\ oc_result' = "error"
               /\ UNCHANGED << oc_todo, oc_issued, cc, t_last >>
          ELSE IF oc_todo = {}
          THEN /\ n_pc' = "idle"
               /\ oc_result' = "ok"
               /\ UNCHANGED << oc_todo, oc_issued, cc, t_last >>
          ELSE \E f \in oc_todo :
               /\ oc_todo' = oc_todo \ {f}
               /\ oc_issued' = [oc_issued EXCEPT ![f] = @ + 1]
               /\ cc' = CcSubscribed
               /\ t_last' = TouchSubscribe("on_connect", ResubscribeQos(f))
               /\ UNCHANGED << n_pc, oc_result >>
    /\ UNCHANGED << connected, subscribed_topics, link, disc_pending, c_pc, c_op,
                    c_arg, c_result, oc_size, oc_start, loop_started,
                    pp, ss, od_last >>
    /\ UNCHANGED frameSess

\* The connection is lost: on_disconnect(client, userdata, rc) with rc # 0.
\* A requested disconnect is reported with rc = 0.
OD_Call(rc) ==
    /\ n_pc = "idle"
    /\ IF rc = 0
          THEN disc_pending /\ disc_pending' = FALSE
          ELSE loop_started /\ link = "open" /\ UNCHANGED disc_pending
    /\ connected' = OnDisconnectFlag(rc)
    /\ link' = "closed"
    /\ cc' = CcSeen("od")
    /\ od_last' = [rc |-> rc, before |-> connected, bit |-> ~od_last.bit]
    /\ UNCHANGED << subscribed_topics, c_pc, c_op, c_arg, c_result, n_pc, oc_size,
                    oc_todo, oc_start, oc_issued, oc_result, loop_started,
                    pp, ss, t_last >>
    /\ UNCHANGED frameSess

\* The network loop reconnects by itself after a lost or refused connection.
T_Reconnect ==
    /\ loop_started
    /\ n_pc = "idle"
    /\ link = "closed"
    /\ link' = "sent"
    /\ UNCHANGED << connected, subscribed_topics, disc_pending, c_pc, c_op, c_arg,
                    c_result, n_pc, oc_size, oc_todo, oc_start, oc_issued,
                    oc_result, loop_started, sessHist >>
    /\ UNCHANGED frameSess

\* ------------------------------------------------ MQTTClientWrapper
\* connect(), lines 78-82: if not self.connection_handler.connected:
\* return False / return True
ConnectResult_NoTest(conn) == "ok"
ConnectResult(conn) == IF conn THEN "ok" ELSE "fail"

\* connect(): self.client.connect(...) either sends CONNECT or raises (then
\* connect() returns False); self.client.loop_start().  Called by the
\* application, or by publish() (c_pc = "p_conn").
C_Connect ==
    /\ c_pc \in {"idle", "p_conn"}
    /\ c_op' = IF c_pc = "p_conn" THEN "publish" ELSE "connect"
    /\ pp' = IF c_pc = "p_conn" THEN [pp EXCEPT !.connects = @ + 1] ELSE NoPublishCall
    /\ ss' = NoSubscribeCall
    /\ t_last' = Touch("connect")
    /\ \/ /\ link' = "sent"
          /\ loop_started' = TRUE
          /\ disc_pending' = FALSE
          /\ c_pc' = "poll"
          /\ c_result' = "none"
          /\ cc' = [NoConnectCall EXCEPT
                        !.cb = IF n_pc # "idle" THEN {"busy"} ELSE {},
                        !.topics0 = subscribed_topics]
       \/ /\ c_result' = "fail"
          /\ c_pc' = IF c_pc = "p_conn" THEN "p_ret" ELSE "idle"
          /\ cc' = [NoConnectCall EXCEPT
                        !.cb = IF n_pc # "idle" THEN {"busy"} ELSE {},
                        !.topics0 = subscribed_topics,
                        !.done = TRUE, !.result = "fail",
                        !.conn = connected, !.topics1 = subscribed_topics]
          /\ UNCHANGED << link, loop_started, disc_pending >>
    /\ UNCHANGED << connected, subscribed_topics, c_arg, n_pc, oc_size,
                    oc_todo, oc_start, oc_issued, oc_result, od_last >>
    /\ UNCHANGED frameSess

\* while not self.connection_handler.connected and time.time() < timeout:
\* the loop ends when connected is read as True, or when the ten seconds
\* are over.
C_PollExit(timeout) ==
    /\ c_pc = "poll"
    /\ connected \/ timeout
    /\ c_pc' = "check"
    /\ cc' = [cc EXCEPT !.timedout = ~connected]
    /\ UNCHANGED << connected, subscribed_topics, link, disc_pending, c_op, c_arg,
                    c_result, n_pc, oc_size, oc_todo, oc_start, oc_issued,
                    oc_result, loop_started, pp, ss, od_last, t_last >>
    /\ UNCHANGED frameSess

\* if not self.connection_handler.connected: return False / return True
C_Check ==
    /\ c_pc = "check"
    /\ c_result' = ConnectResult(connected)
    /\ c_pc' = IF c_op = "publish" THEN "p_ret" ELSE "idle"
    /\ cc' = [cc EXCEPT !.done = TRUE, !.result = ConnectResult(connected),
                        !.conn = connected, !.topics1 = subscribed_topics]
    /\ UNCHANGED << connected, subscribed_topics, link, disc_pending, c_op, c_arg,
                    n_pc, oc_size, oc_todo, oc_start, oc_issued, oc_result,
                    loop_started, pp, ss, od_last, t_last >>
    /\ UNCHANGED frameSess

\* publish(), line 96: if not self.connection_handler.connected
NeedsReconnect_Always(conn) == TRUE
NeedsReconnect(conn) == ~conn

\* publish(), line 104: if result[0] == 0
PublishAcked_Any(code) == TRUE
PublishAcked(code) == code = 0

\* publish(topic, message, qos): reads connected and either goes to
\* self.connect() or straight to self.client.publish.
P_Start ==
    /\ c_pc = "idle"
    /\ c_op' = "publish"
    /\ c_pc' = IF NeedsReconnect(connected) THEN "p_conn" ELSE "p_pub"
    /\ c_result' = "none"
    /\ pp' = [NoPublishCall EXCEPT !.conn0 = connected]
    /\ cc' = NoConnectCall
    /\ ss' = NoSubscribeCall
    /\ UNCHANGED << connected, subscribed_topics, link, disc_pending, c_arg,
                    n_pc, oc_size, oc_todo, oc_start, oc_issued, oc_result,
                    loop_started, od_last, t_last >>
    /\ UNCHANGED frameSess

\* if not self.connect(): logging.error("Reconnection failed"); return False
P_AfterConnect ==
    /\ c_pc = "p_ret"
    /\ IF c_result = "fail"
          THEN /\ c_pc' = "idle"
               /\ c_result' = "fail"
               /\ pp' = [pp EXCEPT !.cres = "fail", !.done = TRUE, !.result = "fail"]
          ELSE /\ c_pc' = "p_pub"
               /\ c_result' = "none"
               /\ pp' = [pp EXCEPT !.cres = "ok"]
    /\ UNCHANGED << connected, subscribed_topics, link, disc_pending, c_op, c_arg,
                    n_pc, oc_size, oc_todo, oc_start, oc_issued, oc_result,
                    loop_started, cc, ss, od_last, t_last >>
    /\ UNCHANGED frameSess

\* result = self.client.publish(topic, message, qos=qos): True if
\* result[0] == 0, False on any other code, False if the call raises.  The
\* transport answers 0 only on an open connection.
P_Publish(code, raises) ==
    /\ c_pc = "p_pub"
    /\ code = 0 => (link = "open" /\ ~raises)
    /\ c_pc' = "idle"
    /\ c_result' = IF ~raises /\ PublishAcked(code) THEN "ok" ELSE "fail"
    /\ pp' = [pp EXCEPT !.pubs = @ + 1,
                        !.code = IF raises THEN -1 ELSE code,
                        !.raised = raises,
                        !.done = TRUE,
                        !.result = IF ~raises /\ PublishAcked(code) THEN "ok" ELSE "fail"]
    /\ t_last' = Touch("publish")
    /\ UNCHANGED << connected, subscribed_topics, link, disc_pending, c_op, c_arg,
                    n_pc, oc_size, oc_todo, oc_start, oc_issued, oc_result,
                    loop_started, cc, ss, od_last >>
    /\ UNCHANGED frameSess

\* subscribe(), line 120: if result[0] == 0
SubscribeAcked_Any(code) == TRUE
SubscribeAcked(code) == code = 0

\* subscribe(topic, qos=1): result = self.client.subscribe(topic, qos).  The
\* transport answers 0 only on an open connection; it may answer another
\* code, or raise, at any time.
S_Call(f, qos, code, raises) ==
    /\ c_pc = "idle"
    /\ code = 0 => (link = "open" /\ ~raises)
    /\ c_op' = "subscribe"
    /\ c_arg' = f
    /\ t_last' = TouchSubscribe("caller", qos)
    /\ cc' = NoConnectCall
    /\ pp' = NoPublishCall
    /\ IF ~raises /\ SubscribeAcked(code)
          THEN /\ c_pc' = "s_add"
               /\ c_result' = "none"
               /\ ss' = [NoSubscribeCall EXCEPT !.f = f, !.qos = qos, !.calls = 1, !.code = code,
                             !.topics0 = subscribed_topics]
          ELSE /\ c_pc' = "idle"
               /\ c_result' = "fail"
               /\ ss' = [NoSubscribeCall EXCEPT !.f = f, !.qos = qos, !.calls = 1,
                             !.code = IF raises THEN -1 ELSE code,
                             !.raised = raises,
                             !.topics0 = subscribed_topics,
                             !.done = TRUE, !.result = "fail",
                             !.topics1 = subscribed_topics]
    /\ UNCHANGED << connected, subscribed_topics, link, disc_pending, n_pc,
                    oc_size, oc_todo, oc_start, oc_issued, oc_result,
                    loop_started, od_last >>
    /\ UNCHANGED frameSess

\* if result[0] == 0: self.connection_handler.subscribed_topics.add(topic)
S_Add_Replace ==
    /\ c_pc = "s_add"
    /\ subscribed_topics' = {c_arg}
    /\ c_result' = "ok"
    /\ c_pc' = "idle"
    /\ ss' = [ss EXCEPT !.done = TRUE, !.result = "ok", !.topics1 = {c_arg}]
    /\ UNCHANGED << connected, link, disc_pending, c_op, c_arg, n_pc, oc_size,
                    oc_todo, oc_start, oc_issued, oc_result, loop_started,
                    cc, pp, od_last, t_last >>
    /\ UNCHANGED frameSess
S_Add ==
    /\ c_pc = "s_add"
    /\ subscribed_topics' = subscribed_topics \cup {c_arg}
    /\ c_result' = "ok"
    /\ c_pc' = "idle"
    /\ ss' = [ss EXCEPT !.done = TRUE, !.result = "ok",
                        !.topics1 = subscribed_topics \cup {c_arg}]
    /\ UNCHANGED << connected, link, disc_pending, c_op, c_arg, n_pc, oc_size,
                    oc_todo, oc_start, oc_issued, oc_result, loop_started,
                    cc, pp, od_last, t_last >>
    /\ UNCHANGED frameSess

\* disconnect(): self.client.loop_stop() waits for the network thread to
\* leave its callback and ends it; self.client.disconnect() closes the
\* connection.  Neither touches the handler's state.
D_Disconnect_Clears ==
    /\ c_pc = "idle"
    /\ n_pc = "idle"
    /\ c_op' = "disconnect"
    /\ loop_started' = FALSE
    /\ disc_pending' = (link = "open")
    /\ link' = "closed"
    /\ connected' = FALSE
    /\ c_result' = "none"
    /\ cc' = NoConnectCall
    /\ pp' = NoPublishCall
    /\ ss' = NoSubscribeCall
    /\ t_last' = Touch("disconnect")
    /\ UNCHANGED << subscribed_topics, c_pc, c_arg, n_pc, oc_size,
                    oc_todo, oc_start, oc_issued, oc_result, od_last >>
    /\ UNCHANGED frameSess
D_Disconnect_Strict ==
    /\ c_pc = "idle"
    /\ n_pc = "idle"
    /\ c_op' = "disconnect"
    /\ loop_started' = FALSE
    /\ disc_pending' = (link = "open")
    /\ link' = "closed"
    /\ c_result' = IF loop_started THEN "none" ELSE "fail"
    /\ cc' = NoConnectCall
    /\ pp' = NoPublishCall
    /\ ss' = NoSubscribeCall
    /\ t_last' = Touch("disconnect")
    /\ UNCHANGED << connected, subscribed_topics, c_pc, c_arg, n_pc, oc_size,
                    oc_todo, oc_start, oc_issued, oc_result, od_last >>
    /\ UNCHANGED frameSess
D_Disconnect ==
    /\ c_pc = "idle"
    /\ n_pc = "idle"
    /\ c_op' = "disconnect"
    /\ loop_started' = FALSE
    /\ disc_pending' = (link = "open")
    /\ link' = "closed"
    /\ c_result' = "none"
    /\ cc' = NoConnectCall
    /\ pp' = NoPublishCall
    /\ ss' = NoSubscribeCall
    /\ t_last' = Touch("disconnect")
    /\ UNCHANGED << connected, subscribed_topics, c_pc, c_arg, n_pc, oc_size,
                    oc_todo, oc_start, oc_issued, oc_result, od_last >>
    /\ UNCHANGED frameSess

SessionNext ==
    \/ \E rc \in Codes : OC_Start(rc)
    \/ OC_Iter
    \/ OC_Next
    \/ \E rc \in Codes : OD_Call(rc)
    \/ T_Reconnect
    \/ C_Connect
    \/ \E timeout \in BOOLEAN : C_PollExit(timeout)
    \/ C_Check
    \/ P_Start
    \/ P_AfterConnect
    \/ \E code \in Codes, raises \in BOOLEAN : P_Publish(code, raises)
    \/ \E f \in Filters, qos \in QosLevels, code \in Codes, raises \in BOOLEAN :
          S_Call(f, qos, code, raises)
    \/ S_Add
    \/ D_Disconnect

\* A wrapper that has just been built: nothing is connected, no loop runs.
SessionInit ==
    /\ InitHandler
    /\ InitSession
    /\ cap = MaxCap
    /\ loop_started = FALSE

SessionSpec == SessionInit /\ [][SessionNext]_vars

\* ====================================================================
\* Properties
\* ====================================================================

\* handle_message calls that took the "queue full" branch: every delivered
\* message that was neither enqueued nor lost to an exception nor still
\* inside handle_message.
OverflowDrops ==
    arrived - Len(accepted) - putErrors - (IF net_pc = "put" THEN 1 ELSE 0)
            - (IF net_pc = "drop" THEN 1 ELSE 0)

\* The messages a thread is holding between its dequeue and the end of
\* _store_message.
HeldBy(t) == Range(msg[t])

\* C1: for every capacity C >= 1 and every interleaving of handle_message
\* with the worker's dequeues and the shutdown drain, the queue never holds
\* more than C records.
C1_QueueBounded == Len(queue) <= cap

\* C1 witness: the queue is full at the largest capacity tried and a
\* further message has been delivered.
C1_Witness == cap = MaxCap /\ Len(queue) = cap /\ arrived > cap

\* The capacity-2 scenario: with no dequeue, delivering messages 1, 2, 3
\* keeps 1 and 2, drops 3 and gives dropped_count = 1.
C2_Scenario ==
    (cap = 2 /\ arrived = 3 /\ deqLog = << >> /\ net_pc = "idle")
        => (queue = << 1, 2 >> /\ dropped_count = 1)

\* C2: a handle_message call that finds the queue holding C records
\* increments dropped_count by exactly one and leaves the queue's contents
\* and processed_count unchanged (neither its full() test nor its drop step
\* touches them); the capacity-2 scenario holds.
C2_DropFrame ==
    /\ [] C2_Scenario
    /\ [][ /\ (net_pc = "idle" /\ net_pc' # "idle" /\ Len(queue) = cap)
               => /\ net_pc' = "drop"
                  /\ queue' = queue
                  /\ dropped_count' = dropped_count
                  /\ processed_count' = processed_count
           /\ (net_pc = "drop" /\ net_pc' = "idle")
               => /\ dropped_count' = dropped_count + 1
                  /\ queue' = queue
                  /\ accepted' = accepted
                  /\ processed_count' = processed_count ]_vars

\* C2 witness: capacity 2, three messages delivered, the third dropped.
C2_Witness ==
    cap = 2 /\ arrived = 3 /\ queue = << 1, 2 >> /\ dropped_count = 1 /\ net_pc = "idle"

\* C3: records leave the queue in the order in which handle_message put
\* them in: the sequence of dequeued records is a prefix of the sequence of
\* accepted records, whichever thread dequeues.
C3_FifoDequeue ==
    /\ Len(deqLog) <= Len(accepted)
    /\ \A i \in 1..Len(deqLog) : deqLog[i] = accepted[i]

\* C3 witness: at least two records were dequeued, the latest by the
\* shutdown drain while an earlier one went to the worker.
C3_Witness ==
    /\ Len(deqLog) >= 2
    /\ HeldBy("main") = {deqLog[Len(deqLog)]}
    /\ processed_count >= 1

\* C4: records are persisted in the order received: of two stored records,
\* the insert of the one enqueued first had completed when the (successful)
\* insert of the other began.
C4_PersistInOrder ==
    \A a, b \in Ids :
        (a < b /\ stored[a] > 0 /\ stored[b] > 0) => a \in doneAtBegin[b]

\* C5: per record, create_message is called at most 3 times and succeeds at
\* most once; nothing is called for it after a success; a record whose 3
\* attempts failed had exactly 3 calls and is neither back in the queue nor
\* held by any thread.
C5_RetryBound ==
    \A i \in Ids :
        /\ attempts[i] <= 3
        /\ stored[i] <= 1
        /\ stored[i] = 1 =>
              \A t \in Threads : i \in HeldBy(t) => pc[t] \notin {"store", "inflight"}
        /\ i \in failed =>
              /\ attempts[i] = 3
              /\ stored[i] = 0
              /\ i \notin Range(queue)
              /\ \A t \in Threads : i \notin HeldBy(t)

\* C5 witness: one record was given up after 3 failed calls by the worker,
\* and the drain has stored another at its second attempt.
C5_Witness ==
    /\ failed # {}
    /\ processed_count = 0
    /\ \E i \in Ids : stored[i] = 1 /\ attempts[i] = 2 /\ pc["main"] = "empty"

\* C6, as stated: a record whose 3 attempts failed is reflected as exactly
\* one failure, by dropped_count (it counts the discarded records besides
\* the overflow drops) or by the error log (one error entry for the record).
C6_OneFailureEvent ==
    failed # {} =>
        \/ dropped_count = OverflowDrops + Cardinality(failed)
        \/ \A i \in failed : Len(errLog[i]) = 1

\* C6, amended: per discarded record _store_message logs exactly one
\* "failed after 3 attempts" error and its caller one further error for the
\* re-raised exception; no other record has an error entry; dropped_count
\* counts the overflow drops only.
C6_FailureLogged ==
    /\ \A i \in Ids :
          errLog[i] = IF i \in failed THEN << "store_failed", "handler" >> ELSE << >>
    /\ dropped_count = OverflowDrops

\* C6 witness: a record was discarded by the worker and another by the
\* drain, and a message was dropped on overflow.
C6_Witness ==
    /\ Cardinality(failed) >= 2
    /\ dropped_count >= 1
    /\ pc["main"] = "returned"
    /\ deqLog[Len(deqLog)] \in failed

\* C7: every on_connect(rc = 0) callback issues exactly one client.subscribe
\* per filter that subscribed_topics held when its resubscription started,
\* and none for any other filter.
C7_ResubscribeOnce ==
    oc_result \in {"ok", "error"} =>
        \A f \in Filters : oc_issued[f] = IF f \in oc_start THEN 1 ELSE 0

\* C8: shutdown() called with K records in the queue, no handle_message
\* activity from then on and a store that never fails: when shutdown() has
\* returned, each of the K records has been inserted exactly once and the
\* queue is empty.
C8_DrainsFully ==
    (pc["main"] \in {"returned", "close", "exited"} /\ ~lateArrival /\ ~anyStoreFail)
        => /\ queue = << >>
           /\ \A i \in resident : stored[i] = 1

\* C9: when the shutdown sequence (shutdown(), then disconnect()) is over,
\* every record handle_message accepted has been dequeued and handed to
\* _store_message; the queue is empty.
C9_NoQueuedLoss ==
    pc["main"] \in {"close", "exited"}
        => /\ queue = << >>
           /\ Range(accepted) \subseteq Range(deqLog)

\* C10: the network loop is stopped (MQTTClientWrapper.disconnect) only
\* after shutdown() has returned: while the main thread is anywhere in
\* shutdown() -- join, size test, drain loop, a drain store call -- the
\* transport is still running, and it holds no record when it disconnects.
C10_DisconnectAfterDrain ==
    ~loop_started => (pc["main"] \in {"close", "exited"} /\ HeldBy("main") = {})

\* C10 witness: disconnect has been called after a drain that stored a
\* record that was in the queue when shutdown() was called.
C10_Witness ==
    /\ ~loop_started
    /\ pc["main"] = "close"
    /\ \E i \in resident : stored[i] = 1 /\ processed_count = 0

\* ------------------------------------------------------------ C11 - C20
\* C11: a connect() call during which the only callbacks delivered are
\* on_connect callbacks with a non-zero reason code returns failure, with
\* connected false at the return, subscribed_topics as it was at the call
\* and no transport subscribe issued during the call.
C11_RefusedConnect ==
    (cc.done /\ cc.cb = {"oc_fail"}) =>
        /\ cc.result = "fail"
        /\ ~cc.conn
        /\ cc.topics1 = cc.topics0
        /\ ~cc.subs

\* C11 witness: connect() has returned after a refused CONNACK, with a
\* filter in the set that a resubscription would have had to issue.
C11_Witness ==
    /\ c_op = "connect"
    /\ c_pc = "idle"
    /\ cc.done
    /\ cc.cb = {"oc_fail"}
    /\ cc.topics0 # {}

\* C12: a publish() that read connected as false called connect() exactly
\* once; if that connect() succeeded the transport publish was issued and
\* publish() returned success exactly on code 0; if it failed publish()
\* returned failure with no transport publish.  A publish() that read
\* connected as true called connect() not at all.
C12_ReconnectOnce ==
    /\ pp.connects <= 1
    /\ pp.conn0 => pp.connects = 0
    /\ (c_op = "publish" /\ ~pp.conn0 /\ c_pc \in {"poll", "check", "p_ret", "p_pub"}) =>
           pp.connects = 1
    /\ (pp.done /\ ~pp.conn0) =>
           /\ pp.connects = 1
           /\ pp.cres \in {"ok", "fail"}
           /\ pp.cres = "ok" =>
                 (pp.pubs = 1 /\ (pp.result = "ok" <=> pp.code = 0))
           /\ pp.cres = "fail" => (pp.pubs = 0 /\ pp.result = "fail")

\* C12 witness: publish() found connected false, its connect() succeeded
\* and the transport publish was acknowledged with 0.
C12_Witness ==
    /\ pp.done
    /\ ~pp.conn0
    /\ pp.cres = "ok"
    /\ pp.result = "ok"

\* C13: a publish() call issues the transport publish at most once and
\* returns success exactly when that call answered code 0; another code or
\* an exception gives failure.
C13_PublishOnce ==
    /\ pp.pubs <= 1
    /\ pp.done =>
          /\ pp.result = "ok" <=> (pp.pubs = 1 /\ ~pp.raised /\ pp.code = 0)
          /\ pp.result \in {"ok", "fail"}
    /\ (c_op = "publish" /\ c_pc = "idle") => (pp.done /\ c_result = pp.result)

\* C13 witness: a publish() on a connected wrapper whose transport publish
\* answered a non-zero code.
C13_Witness ==
    /\ pp.done
    /\ pp.conn0
    /\ pp.pubs = 1
    /\ pp.code = 4
    /\ pp.result = "fail"

\* C14: subscribe(filter, qos) issues one transport subscribe; the filter is
\* added exactly when the answer is code 0; on another code or an exception
\* it returns failure and the set is as before; a filter already in the set
\* leaves the set as it was.
C14_SubscribeAddsOnAck ==
    /\ c_pc = "s_add" => (ss.calls = 1 /\ ss.code = 0 /\ ~ss.raised)
    /\ ss.done =>
          /\ ss.calls = 1
          /\ ss.result = "ok" <=> (ss.code = 0 /\ ~ss.raised)
          /\ ss.topics1 = IF ss.code = 0 /\ ~ss.raised
                             THEN ss.topics0 \cup {ss.f}
                             ELSE ss.topics0
          /\ ss.f \in ss.topics0 => ss.topics1 = ss.topics0

\* C14 witness: a subscribe() for a filter already in the set has been
\* acknowledged with 0.
C14_Witness ==
    /\ ss.done
    /\ ss.result = "ok"
    /\ ss.f \in ss.topics0
    /\ Cardinality(ss.topics0) = 2

\* C15: handle_message never waits: once entered, its next step (the put or
\* the drop, either of which ends it) can be taken whatever the worker and
\* the drain are doing and whether the queue is full or not.
C15_NeverBlocked ==
    (Alive /\ net_pc # "idle") => ENABLED (HM_Put \/ HM_Drop)

\* C15 witness: the handler is about to put a message while the worker is
\* in its third call of a failing store.
C15_Witness ==
    /\ net_pc = "put"
    /\ pc["worker"] = "inflight"
    /\ retry_count["worker"] = 2
    /\ running

\* C16: the worker ends only on the stop flag; the store failure that
\* exhausts a record's attempts discards the record and sends the worker
\* back to its loop test, from where, the flag being unset, it goes to the
\* dequeue.
C16_WorkerSurvivesFailure ==
    /\ [](pc["worker"] = "done" => ~running)
    /\ [][ /\ (/\ pc["worker"] = "inflight"
               /\ retry_count'["worker"] = max_retries
               /\ retry_count["worker"] # max_retries)
              => /\ pc'["worker"] = "loop"
                 /\ msg'["worker"] = NoMsg
                 /\ msg["worker"][1] \in failed'
                 /\ msg["worker"][1] \notin Range(queue')
           /\ (pc["worker"] = "loop" /\ pc'["worker"] # "loop" /\ running)
              => pc'["worker"] = "get" ]_vars

\* C16 witness: with no shutdown requested, the worker gave up a record and
\* has then stored a later one.
C16_Witness ==
    /\ running
    /\ pc["main"] = "pause"
    /\ \E i \in failed : \E j \in Ids : j > i /\ stored[j] = 1
    /\ processed_count = 1

\* C17: no record is inserted more than once: it is dequeued at most once,
\* never held by the worker and the drain together, and no store call is in
\* progress for a record that has been inserted.
C17_AtMostOnce ==
    /\ \A i \in Ids : stored[i] <= 1
    /\ \A a, b \in 1..Len(deqLog) : deqLog[a] = deqLog[b] => a = b
    /\ HeldBy("worker") \cap HeldBy("main") = {}
    /\ \A t \in Threads :
          pc[t] = "inflight" => stored[msg[t][1]] = 0

\* C17 witness: the drain and the worker are both inside a store call, and a
\* record has been inserted at its second attempt.
C17_Witness ==
    /\ pc["worker"] = "inflight"
    /\ pc["main"] = "inflight"
    /\ \E i \in Ids : stored[i] = 1 /\ attempts[i] = 2

\* C18: every on_disconnect leaves connected false, whatever its reason code
\* and whatever connected was, changes nothing in subscribed_topics and
\* calls nothing on the transport.
C18_DisconnectClears ==
    [][ od_last' # od_last =>
           /\ ~connected'
           /\ subscribed_topics' = subscribed_topics
           /\ t_last' = t_last
           /\ link' # "sent" ]_vars

\* C18 witness: on_disconnect with reason code 0 has run on a handler whose
\* connected was true and whose set holds a filter.
C18_Witness ==
    /\ od_last.rc = 0
    /\ od_last.before
    /\ ~connected
    /\ subscribed_topics # {}

\* C19: no step removes a filter from subscribed_topics.
C19_TopicsOnlyGrow ==
    [][ subscribed_topics \subseteq subscribed_topics' ]_vars

\* C19 witness: every filter is in the set after a disconnect() and a
\* delivered on_disconnect.
C19_Witness ==
    /\ subscribed_topics = Filters
    /\ c_op = "disconnect"
    /\ od_last.rc = 0

\* C20: a connect() call whose polling loop ran out of time, no on_connect
\* having been delivered during the call, returns failure with connected
\* false.
C20_TimeoutFails ==
    (cc.done /\ cc.timedout /\ cc.cb \cap {"oc_ok", "oc_fail"} = {}) =>
        /\ cc.result = "fail"
        /\ ~cc.conn

\* C20 witness: connect() has returned after a time-out in which nothing was
\* delivered.
C20_Witness ==
    /\ c_op = "connect"
    /\ cc.done
    /\ cc.timedout
    /\ cc.cb = {}

\* ------------------------------------------------------------ C21 - C30
\* C21: a disconnect() called when connected is false, or right after
\* another disconnect(), returns without error and leaves connected and
\* subscribed_topics as they were; the second of two calls in a row also
\* leaves the transport as the first left it (closed, no loop running).
C21_DisconnectIdempotent ==
    [][ (t_last' # t_last /\ t_last'.op = "disconnect"
            /\ (~connected \/ t_last.op = "disconnect")) =>
           /\ connected' = connected
           /\ subscribed_topics' = subscribed_topics
           /\ c_result' # "fail"
           /\ t_last.op = "disconnect" =>
                 (link' = link /\ loop_started' = loop_started)
           /\ link' = "closed"
           /\ ~loop_started' ]_vars

\* C21 witness: disconnect() has been called twice in a row on a session
\* that had subscribed and connected.
C21_Witness ==
    /\ t_last.op = "disconnect"
    /\ t_last.again
    /\ subscribed_topics # {}
    /\ od_last.rc = 0

\* C22: the worker and the shutdown caller are never both between a
\* dequeue and the end of the store call for the record dequeued.
C22_NoOverlap ==
    ~(/\ pc["worker"] \in {"get", "store", "inflight"}
      /\ pc["main"] \in {"get", "store", "inflight"})

\* C23: subscribed_topics is not written while on_connect iterates over it:
\* during the iteration the set is the one the iteration started with.
C23_NoWriteDuringIteration ==
    n_pc = "oc_next" => subscribed_topics = oc_start

\* What the worker still has to do before it ends, counted in steps, when
\* the stop flag is set.
WorkerRank ==
    CASE pc["worker"] = "done" -> 0
      [] pc["worker"] = "loop" -> 1
      [] pc["worker"] = "count" -> 2
      [] pc["worker"] = "inflight" -> 2 + 2 * (max_retries - retry_count["worker"])
      [] pc["worker"] = "store" -> 3 + 2 * (max_retries - retry_count["worker"])
      [] pc["worker"] = "get" -> 4 + 2 * max_retries

\* The worker thread took a step.
WorkerMoved ==
    \/ pc'["worker"] # pc["worker"]
    \/ retry_count'["worker"] # retry_count["worker"]
    \/ msg'["worker"] # msg["worker"]

C25_CountAfterEveryStore ==
    [][ (pc["worker"] = "inflight" /\ pc'["worker"] \notin {"inflight", "store"})
            => pc'["worker"] = "count" ]_vars

\* C26: while the worker is running, an interval that has run out is
\* followed by a statistics report that resets last_log_time.
C26_ReportCadence ==
    (due /\ running) ~> (~due \/ ~running)

\* C27: when shutdown() has returned, it has emitted a statistics report.
C27_ShutdownReports ==
    pc["main"] \in {"returned", "close", "exited"} => "main" \in Range(statsLog)

\* Records the worker has stored and counted.
WorkerCounted ==
    { i \in Ids : stored[i] > 0 /\ i \notin drainStored /\ i \notin HeldBy("worker") }

\* C28: a step leaves each counter as it is or adds one; processed_count is
\* changed only by the worker's increment and dropped_count only by
\* handle_message's drop branch; neither loses an increment: dropped_count
\* is the number of drops made and processed_count the number of records the
\* worker stored and counted.
C28_CountersMonotone ==
    /\ [][ /\ processed_count' \in {processed_count, processed_count + 1}
           /\ dropped_count' \in {dropped_count, dropped_count + 1}
           /\ processed_count' # processed_count =>
                 (pc["worker"] = "count" /\ pc' = [pc EXCEPT !["worker"] = "loop"]
                    /\ net_pc' = net_pc)
           /\ dropped_count' # dropped_count =>
                 (net_pc = "drop" /\ net_pc' = "idle" /\ pc' = pc) ]_vars
    /\ [](dropped_count = OverflowDrops)
    /\ [](processed_count = Cardinality(WorkerCounted))

\* C28 witness: the worker has counted a record, a message has been dropped
\* and the drain has stored a record.
C28_Witness ==
    /\ processed_count = 1
    /\ dropped_count = 1
    /\ drainStored # {}

\* C29: the session starts with connected false and no filter, and a step
\* that turns connected from false to true is the start of an on_connect
\* callback with reason code 0, in which the caller does nothing.
C29_ConnectedOnlyByCallback ==
    /\ ~connected
    /\ subscribed_topics = {}
    /\ [][ (~connected /\ connected') =>
              /\ n_pc = "idle" /\ n_pc' = "oc_for"
              /\ link = "sent" /\ link' = "open"
              /\ c_pc' = c_pc /\ c_op' = c_op /\ c_result' = c_result
              /\ t_last' = t_last ]_vars

\* C29 witness: a publish() found connected false, and during its connect()
\* an on_connect with code 0 made it true.
C29_Witness ==
    /\ connected
    /\ c_op = "publish"
    /\ ~pp.conn0
    /\ "oc_ok" \in cc.cb

\* handle_message calls that have returned.
HandledCalls == arrived - (IF net_pc # "idle" THEN 1 ELSE 0)

\* C30: every record whose handle_message call has returned is in exactly
\* one place: dropped, queued, held by the worker or by the drain, counted
\* by the worker, stored by the drain, or discarded after 3 failed attempts.
C30_Accounting ==
    HandledCalls = dropped_count + QSize
                     + Cardinality(HeldBy("worker")) + Cardinality(HeldBy("main"))
                     + processed_count + Cardinality(drainStored)
                     + Cardinality(failed)

\* C30 witness: of three records one was discarded after its 3 attempts,
\* one was stored and counted by the worker and one was dropped.
C30_Witness ==
    /\ arrived = 3
    /\ net_pc = "idle"
    /\ failed # {}
    /\ processed_count = 1
    /\ dropped_count = 1

\* ------------------------------------------------------------ C31 - C37
\* C31: put_nowait never finds the queue full after full() said it was
\* not, so no handle_message call ends in its except branch: every call that
\* has returned either appended its record or counted a drop, not both and
\* not neither.
C31_CheckThenInsert ==
    /\ putErrors = 0
    /\ net_pc = "put" => ~QFull
    /\ HandledCalls = Len(accepted) + dropped_count

\* C31 witness: the handler is between its full() test and its put, with
\* one free slot left, while the drain is about to dequeue and the worker is
\* inside a store call.
C31_Witness ==
    /\ net_pc = "put"
    /\ pc["main"] = "get"
    /\ pc["worker"] = "inflight"
    /\ Len(queue) = cap - 1

\* C32: a connect() call that returned success had an on_connect callback
\* with reason code 0 delivered between its start and its return.
C32_SuccessNeedsCallback ==
    (cc.done /\ cc.result = "ok") => "oc_ok" \in cc.cb

\* C33: disconnect() changes neither connected nor subscribed_topics, and a
\* step that turns connected from true to false is an on_disconnect
\* callback or an on_connect callback with a non-zero reason code.
C33_DisconnectKeepsState ==
    /\ [][ (t_last' # t_last /\ t_last'.op = "disconnect") =>
              /\ connected' = connected
              /\ subscribed_topics' = subscribed_topics
              /\ ~loop_started'
              /\ link' = "closed" ]_vars
    /\ [][ (connected /\ ~connected') =>
              \/ od_last' # od_last
              \/ n_pc = "idle" /\ n_pc' = "idle" /\ link = "sent" /\ link' = "closed" ]_vars

\* C33 witness: disconnect() has returned and no on_disconnect has been
\* delivered: connected is still true with the loop stopped.
C33_Witness ==
    /\ t_last.op = "disconnect"
    /\ c_op = "disconnect"
    /\ connected
    /\ ~loop_started
    /\ link = "closed"
    /\ subscribed_topics # {}

\* C36: when the drain's store call raises after the third failure the drain
\* goes back to its loop test with the record discarded, and shutdown()
\* returns from the drain only on finding the queue empty.
C36_DrainSurvivesFailure ==
    /\ [][ (/\ pc["main"] = "inflight"
             /\ retry_count'["main"] = max_retries
             /\ retry_count["main"] # max_retries)
              => /\ pc'["main"] = "empty"
                 /\ msg'["main"] = NoMsg
                 /\ msg["main"][1] \in failed'
                 /\ msg["main"][1] \notin Range(queue') ]_vars
    /\ [][ (pc["main"] \in {"qsize", "empty", "get", "store", "inflight"}
              /\ pc'["main"] \notin {"qsize", "empty", "get", "store", "inflight"})
              => (pc'["main"] = "returned" /\ QEmpty) ]_vars

\* C36 witness: the join timed out and the worker is still inside its store
\* call; the drain gave up one queued record after 3 attempts, stored the
\* next one and returned.
C36_Witness ==
    /\ pc["worker"] = "inflight"
    /\ pc["main"] = "returned"
    /\ \E i \in failed \cap resident : \E j \in drainStored : j > i

\* C34: subscribed_topics holds filters only, and every client.subscribe
\* that on_connect issues carries the transport's default qos, while the
\* one subscribe() issues carries the qos subscribe() was called with.
C34_ResubscribeDefaultQos ==
    /\ subscribed_topics \subseteq Filters
    /\ (t_last.op = "subscribe" /\ t_last.by = "on_connect") => t_last.qos = DefaultQos
    /\ (t_last.op = "subscribe" /\ t_last.by = "caller" /\ ss.calls = 1) =>
           t_last.qos = ss.qos

\* C34 witness: subscribe(f, 2) succeeded, f is the only filter in the set,
\* and after a reconnect on_connect has resubscribed it with qos 0.
C34_Witness ==
    /\ ss.done
    /\ ss.result = "ok"
    /\ ss.qos = 2
    /\ subscribed_topics = {ss.f}
    /\ t_last.op = "subscribe"
    /\ t_last.by = "on_connect"
    /\ t_last.qos = 0


\* C37: with max_queue_size 0 or negative the queue is unbounded:
\* handle_message never finds it full (it never takes the drop branch and
\* put_nowait never raises), no record is dropped, dropped_count stays 0
\* and every delivered record is accepted.
C37_NonPositiveUnbounded ==
    cap <= 0 =>
        /\ ~QFull
        /\ net_pc # "drop"
        /\ dropped_count = 0
        /\ putErrors = 0
        /\ HandledCalls = Len(accepted)

\* C37 witness: configured with 0, the queue holds every message the
\* broker delivered, more than the configured capacity.
C37_Witness ==
    cap = 0 /\ arrived = MaxMsgs /\ Len(queue) = MaxMsgs /\ net_pc = "idle"


\* C35: if every store call terminates, shutdown() eventually returns,
\* whatever the network producer does, a producer that keeps enqueuing
\* records while the drain loop runs included.
C35_ShutdownReturns == (pc["main"] = "join") ~> (pc["main"] = "returned")

==========================================================================
